---------------------------- MODULE Spec2Model ----------------------------
(***************************************************************************)
(* Model of the collection-and-persistence pipeline of the job market     *)
(* analysis tool: the SQLite-backed JobDatabase (src/src/database_manager *)
(* .py), the CSV merge utility of the same file, and the page loop of the  *)
(* listing scrapers (src/src/job_scraper.py).                              *)
(*                                                                         *)
(* The specifications of the module:                                       *)
(*   Spec           the JobDatabase operations on one store file, whose    *)
(*                  table JobDatabase created                              *)
(*   MergeSpec      merge_multiple_sources over a list of CSV paths        *)
(*   ScrapeSpec     IndeedScraper / BaytScraper scrape_jobs, one step per  *)
(*                  request, page parse and rate-limiter delay             *)
(*   ScrapeFairSpec ScrapeSpec with a call under way always going on       *)
(*   ParseSpec      a scrape_jobs call from a first page of several        *)
(*                  listing fragments on                                   *)
(*   ConcSpec       JobDatabase calls of separate processes on one store   *)
(*                  file, one step per SQL statement and commit            *)
(*   FileSpec       a session's save_to_csv / save_to_json /               *)
(*                  save_to_database and JobDatabase on a store file that  *)
(*                  does not exist at first                                *)
(*   QuerySpec      get_jobs_by_title / get_jobs_by_location on texts      *)
(*                  modelled as sequences of characters                    *)
(*   CardSpec       _parse_job_card on fragments whose element texts are   *)
(*                  sequences of characters                                *)
(*   SessionSpec    a scraper instance: one scrape_jobs call and the saves *)
(*                  before and after it                                    *)
(*   AgreeSpec      two batch files loaded into a store and deduplicated,  *)
(*                  and merged by merge_multiple_sources                   *)
(***************************************************************************)
EXTENDS Integers, Sequences, FiniteSets, TLC

VARIABLES
    table,      \* job_postings: the rows, in rowid order
    seq,        \* sqlite_sequence: the largest id ever assigned
    before,     \* the rows as they were before the latest writing call
    last,       \* the latest JobDatabase call: [op, raised, arg, ret]
    prev,       \* the call before it: [op, raised, n]
    issued,     \* the ids assigned before the latest writing call
    files,      \* the CSV files on disk: path -> [exists, rows]
    m,          \* the latest merge_multiple_sources call and what it did
    adapter,    \* the scraper class of the instance: "Indeed" or "Bayt"
    jobs,       \* self.jobs, the accumulator of the instance
    pc,         \* where scrape_jobs stands
    max_pages,  \* the argument of the running scrape_jobs call
    page,       \* the loop variable of scrape_jobs
    job_cards,  \* the listing fragments of the page being parsed
    entry,      \* self.jobs as it was when scrape_jobs was called
    log,        \* the requests and delays of the call, in order
    sret,       \* how the call ended: [returned, raised, jobs]
    lock,       \* the connection holding the write lock of the store file
    ins,        \* the to_sql transaction of a concurrent insert_jobs
    dd,         \* the DELETE transaction of a concurrent remove_duplicates
    rd,         \* the latest SELECT of a concurrent reader and what it saw
    st,         \* a concurrent get_statistics call: its queries so far
    schema,     \* the store file: which CREATE TABLE made job_postings, and
                \* whether its indexes exist
    out,        \* the files of output_dir written by the session
    ingested    \* the load_csv_to_database calls made on the input files of
                \* a merge, in order: [path, raised]

storeVars == <<table, seq, before, last, prev, issued>>
mergeVars == <<files, m>>
scrapeVars == <<adapter, jobs, pc, max_pages, page, job_cards, entry, log, sret>>
concVars == <<lock, ins, dd, rd, st>>
fileVars == <<schema, out, ingested>>
vars == <<storeVars, mergeVars, scrapeVars, concVars, fileVars>>

-----------------------------------------------------------------------------
(* Bounds of the model.                                                    *)

\* ids handed out by the store in one behaviour
MaxId == 3
\* records in one batch handed to insert_jobs
MaxBatch == 2
\* records in one CSV file
MaxRows == 2
\* the largest max_pages a scrape_jobs call is given
MaxPages == 3
\* listing fragments on one page
MaxCards == 1
\* ids handed out by a store that several connections write to
MaxConcId == 2
\* characters in a text that the LIKE queries are run on or with
MaxText == 2
\* listing fragments on the page whose parsing is followed fragment by
\* fragment
MaxFragments == 3

-----------------------------------------------------------------------------
(* The record model: a DataFrame row with the nine JobPosting columns.     *)

\* a missing cell of a DataFrame (NaN / None), NULL in the store
Missing == "<missing>"

JobFields ==
    {"job_title", "company", "location", "description", "salary",
     "experience_level", "posted_date", "source", "scraped_at"}

Posting(t, c, l, d, src, day) ==
    [job_title |-> t, company |-> c, location |-> l, description |-> d,
     salary |-> "", experience_level |-> "", posted_date |-> day,
     source |-> src, scraped_at |-> "2024-03-01 10:00:00"]

\* The records the batches are drawn from: two records sharing one identity
\* key with different other fields, a record with another key, two records
\* whose company cell is missing, and one whose job_title cell is missing.
Postings ==
    { Posting("Data Scientist", "X", "Riyadh", "d1", "Indeed", "2024-01-10"),
      Posting("Data Scientist", "X", "Riyadh", "d2", "Bayt", "2024-02-20"),
      Posting("Data Analyst", "X", "Riyadh", "d1", "Bayt", "2024-02-20"),
      Posting("Data Scientist", Missing, "Riyadh", "d1", "Indeed", "2024-01-10"),
      Posting("Data Scientist", Missing, "Riyadh", "d2", Missing, Missing),
      Posting(Missing, "X", "Riyadh", "d1", "Indeed", "2024-01-10") }

Batches == UNION { [1..n -> Postings] : n \in 0..MaxBatch }

\* the identity key of a record or row
KeyOf(r) == <<r.job_title, r.company, r.location>>

\* a row without its store-assigned id
Fields(r) == [f \in JobFields |-> r[f]]

Range(s) == { s[i] : i \in DOMAIN s }

-----------------------------------------------------------------------------
(* JobDatabase                                                             *)

\* a row of job_postings: the nine columns and the AUTOINCREMENT id
Row(i, p) == [id |-> i] @@ p

\* job_title TEXT NOT NULL
NotNullOk(batch) == \A k \in DOMAIN batch : batch[k].job_title # Missing

\* INTEGER PRIMARY KEY without AUTOINCREMENT: a new row takes the largest id
\* in the table plus one
Appended_MaxRowid(tbl, s, batch) ==
    LET top == IF tbl = <<>> THEN 0 ELSE tbl[Len(tbl)].id
    IN  tbl \o [k \in 1..Len(batch) |-> [id |-> top + k] @@ batch[k]]

\* insert_jobs as an upsert would do it: a record whose identity key is
\* already stored is skipped
Appended_SkipKnownKeys(tbl, s, batch) ==
    LET known == { KeyOf(r) : r \in Range(tbl) }
        fresh == SelectSeq(batch, LAMBDA p : KeyOf(p) \notin known)
    IN  tbl \o [k \in 1..Len(fresh) |-> [id |-> s + k] @@ fresh[k]]

\* DataFrame.to_sql(if_exists='append'): one INSERT per record, in order,
\* each taking the next id after the largest ever assigned
Appended(tbl, s, batch) ==
    tbl \o [k \in 1..Len(batch) |-> Row(s + k, batch[k])]

\* the subquery with MAX(id) in place of MIN(id): the last row of a group
MinIds_Max(tbl) ==
    { r.id : r \in { x \in Range(tbl) :
                       \A y \in Range(tbl) : KeyOf(y) = KeyOf(x) => x.id >= y.id } }

\* SELECT MIN(id) FROM job_postings GROUP BY job_title, company, location
\* (GROUP BY puts NULLs of a column in one group)
MinIds(tbl) ==
    { r.id : r \in { x \in Range(tbl) :
                       \A y \in Range(tbl) : KeyOf(y) = KeyOf(x) => x.id <= y.id } }

\* a DELETE that removes one duplicate of a group per call: its last row
RowsAfterDelete_OnePerGroup(tbl) ==
    LET drop == { r.id : r \in { x \in Range(tbl) :
                    /\ \E y \in Range(tbl) : KeyOf(y) = KeyOf(x) /\ y.id < x.id
                    /\ \A y \in Range(tbl) : KeyOf(y) = KeyOf(x) => y.id <= x.id } }
    IN  SelectSeq(tbl, LAMBDA r : r.id \notin drop)

\* a deduplication that rebuilds the table from the kept rows: they are
\* numbered again from 1
RowsAfterDelete_Renumbered(tbl) ==
    LET keep == MinIds(tbl)
        kept == SelectSeq(tbl, LAMBDA r : r.id \in keep)
    IN  [i \in DOMAIN kept |-> [kept[i] EXCEPT !.id = i]]

\* DELETE FROM job_postings WHERE id NOT IN (...)
RowsAfterDelete(tbl) ==
    LET keep == MinIds(tbl)
    IN  SelectSeq(tbl, LAMBDA r : r.id \in keep)

\* executemany of the INSERT: the records inserted, in order, before the
\* first one the store rejects (job_title NULL against NOT NULL)
RECURSIVE AcceptedPrefix(_)
AcceptedPrefix(batch) ==
    IF batch = <<>> \/ Head(batch).job_title = Missing THEN <<>>
    ELSE <<Head(batch)>> \o AcceptedPrefix(Tail(batch))

\* a failed to_sql whose transaction is committed instead of rolled back:
\* the rows inserted before the rejected record stay
AfterFailedInsert_NoRollback(tbl, s, batch) ==
    [table |-> Appended(tbl, s, AcceptedPrefix(batch)),
     seq |-> s + Len(AcceptedPrefix(batch))]

\* to_sql runs its inserts in run_transaction: on an exception the
\* connection is rolled back (the rows inserted so far and the update of
\* sqlite_sequence with them) and the exception is raised again
AfterFailedInsert(tbl, s, batch) == [table |-> tbl, seq |-> s]

\* The store file. job_postings is made by the CREATE TABLE of
\* ensure_database_exists (id, NOT NULL job_title, created_at), or by to_sql
\* when it appends to a file without the table: then the table has the
\* columns of the DataFrame and nothing else.
NoTable == [made |-> "none", indexes |-> FALSE]
ByJobDatabase == [made |-> "JobDatabase", indexes |-> TRUE]

HasId(sch) == sch.made = "JobDatabase"

\* the ids of the rows of the store (none in a table without the column)
IdsOf(sch, tbl) == IF HasId(sch) THEN { r.id : r \in Range(tbl) } ELSE {}

\* ensure_database_exists as DROP TABLE and CREATE TABLE: the rows are lost
EnsureSchema_Recreate(sch, tbl) == [schema |-> ByJobDatabase, table |-> <<>>]

\* CREATE TABLE IF NOT EXISTS job_postings, CREATE INDEX IF NOT EXISTS (x3)
EnsureSchema(sch, tbl) ==
    [schema |-> [made |-> IF sch.made = "none" THEN "JobDatabase" ELSE sch.made,
                 indexes |-> TRUE],
     table |-> tbl]

\* whether the store rejects a record of the batch
Rejected(sch, batch) == HasId(sch) /\ ~NotNullOk(batch)

\* to_sql as an insert that leaves out a record whose identity key is
\* already stored
ToSql_SkipKnownKeys(sch, tbl, s, batch) ==
    LET fresh == SelectSeq(batch,
                           LAMBDA p : KeyOf(p) \notin { KeyOf(r) : r \in Range(tbl) })
    IN  IF HasId(sch)
          THEN [schema |-> sch, table |-> Appended(tbl, s, fresh), seq |-> s + Len(fresh)]
          ELSE [schema |-> [sch EXCEPT !.made = "to_sql"], table |-> tbl \o fresh,
                seq |-> s]

\* DataFrame.to_sql('job_postings', conn, if_exists='append', index=False)
\* of a batch the store accepts
ToSql(sch, tbl, s, batch) ==
    IF HasId(sch)
      THEN [schema |-> sch, table |-> Appended(tbl, s, batch), seq |-> s + Len(batch)]
      ELSE [schema |-> [sch EXCEPT !.made = "to_sql"], table |-> tbl \o batch,
            seq |-> s]

\* the rows the store has taken so far, for the bound of the model
Taken(sch, tbl, s) == IF HasId(sch) THEN s ELSE Len(tbl)

\* SELECT * FROM job_postings
SelectAll(tbl) == tbl

\* COUNT(company) in place of COUNT(*): rows with a NULL company not counted
CountStar_CountCompany(tbl) ==
    Cardinality({ i \in DOMAIN tbl : tbl[i].company # Missing })

\* SELECT COUNT(*) FROM job_postings
CountStar(tbl) == Len(tbl)

\* the non-NULL values of a column
ColumnValues(tbl, col) == { r[col] : r \in Range(tbl) } \ {Missing}

\* SELECT col, COUNT(*) as count FROM job_postings GROUP BY col
GroupCounts(tbl, col) ==
    { [value |-> v, count |-> Cardinality({ i \in DOMAIN tbl : tbl[i][col] = v })] :
        v \in { r[col] : r \in Range(tbl) } }

\* LIMIT 10 of the location groups
TopLocationsLimit == 10

\* ORDER BY count DESC LIMIT n
TopGroups(groups, n) ==
    IF Cardinality(groups) <= n THEN groups
    ELSE CHOOSE S \in SUBSET groups :
            /\ Cardinality(S) = n
            /\ \A a \in S, b \in groups \ S : a.count >= b.count

\* the posted_date strings of the model in the order SQLite compares TEXT
DateOrder == <<"2024-01-10", "2024-02-20">>

DateRank(d) == CHOOSE i \in DOMAIN DateOrder : DateOrder[i] = d

\* SELECT MIN(posted_date), MAX(posted_date): NULLs are skipped, and the
\* aggregate of no value is NULL
MinDate(tbl) ==
    LET ds == ColumnValues(tbl, "posted_date")
    IN  IF ds = {} THEN Missing
        ELSE CHOOSE d \in ds : \A e \in ds : DateRank(d) <= DateRank(e)

MaxDate(tbl) ==
    LET ds == ColumnValues(tbl, "posted_date")
    IN  IF ds = {} THEN Missing
        ELSE CHOOSE d \in ds : \A e \in ds : DateRank(d) >= DateRank(e)

Statistics(tbl) ==
    [total_jobs |-> CountStar(tbl),
     jobs_by_source |-> GroupCounts(tbl, "source"),
     top_locations |-> TopGroups(GroupCounts(tbl, "location"), TopLocationsLimit),
     date_range |-> [earliest |-> MinDate(tbl), latest |-> MaxDate(tbl)]]

-----------------------------------------------------------------------------
(* CSV files and merge_multiple_sources                                    *)

\* no file at a path
Absent == [exists |-> FALSE, rows |-> <<>>]

\* a file with a header row and these records
File(content) == [exists |-> TRUE, rows |-> content]

\* csv_files is drawn from these paths; nothing is ever written to the last
InputPaths == {"indeed_jobs.csv", "bayt_jobs.csv", "missing.csv"}
NeverWritten == "missing.csv"

\* output_path='data/raw/merged_jobs.csv'
OutputPath == "merged_jobs.csv"

\* The records found in the CSV files, as the text of their cells: two
\* records with one identity key, one with an empty company cell and one
\* whose company cell is the text NA.
CsvRecords ==
    { Posting("Data Scientist", "X", "Riyadh", "d1", "Indeed", "2024-01-10"),
      Posting("Data Scientist", "X", "Riyadh", "d2", "Bayt", "2024-02-20"),
      Posting("Data Scientist", "", "Riyadh", "d3", "Bayt", "2024-02-20"),
      Posting("Data Scientist", "NA", "Riyadh", "d4", "Indeed", "2024-01-10") }

\* a file holds a header row and its records (none: a header only)
CsvContents == UNION { [1..n -> CsvRecords] : n \in 0..MaxRows }

\* the cell texts pandas.read_csv reads as a missing value by default
\* (keep_default_na=True); the cells of the model hold no numeric text
NaTokens ==
    {"", "#N/A", "#N/A N/A", "#NA", "-1.#IND", "-1.#QNAN", "-NaN", "-nan",
     "1.#IND", "1.#QNAN", "<NA>", "N/A", "NA", "NULL", "NaN", "n/a", "nan",
     "null"}

ReadCell(text) == IF text \in NaTokens THEN Missing ELSE text

\* pd.read_csv(csv_file)
ReadCsv(content) ==
    [i \in DOMAIN content |-> [f \in JobFields |-> ReadCell(content[i][f])]]

\* DataFrame.to_csv(path, index=False): a missing value is written as the
\* empty cell (na_rep='')
WriteCell(v) == IF v = Missing THEN "" ELSE v

ToCsv(df) ==
    [i \in DOMAIN df |-> [f \in JobFields |-> WriteCell(df[i][f])]]

\* os.path.exists(csv_file)
Exists(fs, path) == fs[path].exists

\* the loop without the os.path.exists test: pd.read_csv raises
\* FileNotFoundError at the first missing path
RECURSIVE LoadAll_NoExistsCheck(_, _)
LoadAll_NoExistsCheck(paths, fs) ==
    IF paths = <<>> THEN [dfs |-> <<>>, warnings |-> 0, raised |-> FALSE]
    ELSE IF Exists(fs, Head(paths))
           THEN LET rest == LoadAll_NoExistsCheck(Tail(paths), fs)
                IN  [dfs |-> <<ReadCsv(fs[Head(paths)].rows)>> \o rest.dfs,
                     warnings |-> rest.warnings, raised |-> rest.raised]
           ELSE [dfs |-> <<>>, warnings |-> 0, raised |-> TRUE]

\* for csv_file in csv_files: the frames loaded, in order, the number of
\* "File not found" warnings printed, and whether a read raised (no read
\* is made of a path that does not exist)
RECURSIVE LoadAll(_, _)
LoadAll(paths, fs) ==
    IF paths = <<>> THEN [dfs |-> <<>>, warnings |-> 0, raised |-> FALSE]
    ELSE LET rest == LoadAll(Tail(paths), fs)
         IN  IF Exists(fs, Head(paths))
               THEN [dfs |-> <<ReadCsv(fs[Head(paths)].rows)>> \o rest.dfs,
                     warnings |-> rest.warnings, raised |-> rest.raised]
               ELSE [dfs |-> rest.dfs, warnings |-> rest.warnings + 1,
                     raised |-> rest.raised]

\* pd.concat(all_dfs, ignore_index=True)
RECURSIVE Concat(_)
Concat(dfs) == IF dfs = <<>> THEN <<>> ELSE Head(dfs) \o Concat(Tail(dfs))

\* the rows of df at the indexes in idx, in order
RECURSIVE Pick(_, _, _)
Pick(df, idx, i) ==
    IF i > Len(df) THEN <<>>
    ELSE (IF i \in idx THEN <<df[i]>> ELSE <<>>) \o Pick(df, idx, i + 1)

\* drop_duplicates keeping the last row of each key (keep='last')
DropDuplicates_KeepLast(df) ==
    Pick(df, { i \in DOMAIN df :
                 \A j \in (i + 1)..Len(df) : KeyOf(df[j]) # KeyOf(df[i]) }, 1)

\* merged_df.drop_duplicates(subset=['job_title', 'company', 'location']):
\* the first row of each key is kept; missing values equal each other
DropDuplicates(df) ==
    Pick(df, { i \in DOMAIN df :
                 \A j \in 1..(i - 1) : KeyOf(df[j]) # KeyOf(df[i]) }, 1)

\* the test left out: the frames are concatenated and written whatever
\* was loaded
AnythingLoaded_Always(all_dfs) == TRUE

\* if all_dfs: a list is true when it is not empty
AnythingLoaded(all_dfs) == all_dfs # <<>>

\* a call: csv_files, whether it raised, whether it returned None, the
\* frame returned, and the counts it printed
MergeCall(paths, raised, none, ret, initial, removed, nfiles, warnings) ==
    [op |-> "merge_multiple_sources", paths |-> paths, raised |-> raised,
     none |-> none, ret |-> ret, initial |-> initial, removed |-> removed,
     nfiles |-> nfiles, warnings |-> warnings]

\* no merge has run
MergeIdle ==
    /\ files = [p \in InputPaths \cup {OutputPath} |-> Absent]
    /\ m = [op |-> "none"]

\* csv_files: every list of distinct input paths
PathLists ==
    { ps \in UNION { [1..n -> InputPaths] : n \in 0..Cardinality(InputPaths) } :
        \A i, j \in DOMAIN ps : i # j => ps[i] # ps[j] }

FileSystems ==
    { fs \in [InputPaths \cup {OutputPath} -> { File(c) : c \in CsvContents } \cup {Absent}] :
        fs[NeverWritten] = Absent /\ fs[OutputPath] = Absent }

-----------------------------------------------------------------------------
(* The listing scrapers: IndeedScraper and BaytScraper                     *)

Adapters == {"Indeed", "Bayt"}

\* datetime.now() at the time of the scrape, as the two formats give it
Today == "2024-03-01"
Now == "2024-03-01 10:00:00"

\* A listing fragment: the text of its title element and whether parsing it
\* raises. The texts of the model have no outer and no repeated white space.
Card(p, i, malformed) ==
    [title |-> "job " \o ToString(p) \o "." \o ToString(i),
     malformed |-> malformed]

\* what find_all can return for page p: up to MaxCards fragments, each
\* well-formed or malformed
CardLists(p) ==
    UNION { { [i \in 1..n |-> Card(p, i, bad[i])] : bad \in [1..n -> BOOLEAN] } :
              n \in 0..MaxCards }

\* clean_text on a text without outer or repeated white space; no text
\* (None or '') gives ''
clean_text(text) == IF text = Missing THEN "" ELSE text

\* _parse_job_card of a well-formed fragment: company, location and
\* description elements are not found in the fragments of the model
ParsedRecord(a, card) ==
    [job_title |-> clean_text(card.title), company |-> "", location |-> "",
     description |-> "", salary |-> "", experience_level |-> "",
     posted_date |-> Today, source |-> a, scraped_at |-> Now]

\* the loop over the fragments left at the first fragment whose parse
\* raised: the fragments after it give no record
RECURSIVE ParsedCards_StopAtFailure(_, _)
ParsedCards_StopAtFailure(a, cs) ==
    IF cs = <<>> \/ Head(cs).malformed THEN <<>>
    ELSE <<ParsedRecord(a, Head(cs))>> \o ParsedCards_StopAtFailure(a, Tail(cs))

\* what find_all returned for a page with up to MaxFragments fragments
FragmentLists(p) ==
    UNION { { [i \in 1..n |-> Card(p, i, bad[i])] : bad \in [1..n -> BOOLEAN] } :
              n \in 1..MaxFragments }

\* for card in job_cards: the records appended, a fragment whose parse
\* raised (job_data is None) being skipped
RECURSIVE ParsedCards(_, _)
ParsedCards(a, cs) ==
    IF cs = <<>> THEN <<>>
    ELSE (IF Head(cs).malformed THEN <<>> ELSE <<ParsedRecord(a, Head(cs))>>)
         \o ParsedCards(a, Tail(cs))

\* range(max_pages) for Indeed, range(1, max_pages + 1) for Bayt
FirstPage(a) == IF a = "Indeed" THEN 0 ELSE 1

\* range(max_pages + 1): one page too many
LastPage_OneMore(a, n) == IF a = "Indeed" THEN n ELSE n + 1

LastPage(a, n) == IF a = "Indeed" THEN n - 1 ELSE n

\* a page without fragments parsed like any other page (no break)
AfterPage_NoBreak(cs) == "parse"

\* if not job_cards: break
AfterPage(cs) == IF cs = <<>> THEN "return" ELSE "parse"

\* a failed page skipped with continue: the loop goes to the next page
AfterFailure_Continue(p) == [pc |-> "loop", page |-> p + 1]

\* else: break, and except Exception: break
AfterFailure(p) == [pc |-> "return", page |-> p]

\* the page loop without the call of add_delay
AfterParse_NoDelay(p) == [pc |-> "loop", page |-> p + 1]

\* self.add_delay() after the fragments of a page
AfterParse(p) == [pc |-> "delay", page |-> p]

Get(p, result, cs) == [e |-> "get", page |-> p, result |-> result, cards |-> cs]
Sleep(p) == [e |-> "sleep", page |-> p, result |-> "slept", cards |-> <<>>]

\* self.jobs = the records of the page: what the instance held is dropped
Accumulated_Replace(js, recs) == recs

\* self.jobs.append(job_data) for the records of a page
Accumulated(js, recs) == js \o recs

NotReturned == [returned |-> FALSE, raised |-> FALSE, jobs |-> <<>>]

\* a record left in self.jobs by an earlier scrape_jobs call of the instance
EarlierRecord(a) == ParsedRecord(a, [title |-> "job earlier", malformed |-> FALSE])

\* the sinks of a session: output_dir holds no file, a CSV or a JSON file
OutputKinds == {"csv", "json"}
NoFiles == [k \in OutputKinds |-> Absent]

\* if not self.jobs, never taken
NothingToSave_Never(js) == FALSE

\* if not self.jobs: print("No jobs to save!"); return
NothingToSave(js) == js = <<>>

\* return without a value
None == "None"

\* the accumulators a session can hold when it saves: the records of up to
\* MaxBatch listing fragments
SessionRecords ==
    { ParsedRecord(a, Card(FirstPage(a), 1, FALSE)) : a \in Adapters }

SessionJobs == UNION { [1..n -> SessionRecords] : n \in 0..MaxBatch }

\* no scraper in use
ScrapeIdle ==
    /\ adapter = "Indeed"
    /\ jobs = <<>>
    /\ pc = "idle"
    /\ max_pages = 0
    /\ page = 0
    /\ job_cards = <<>>
    /\ entry = <<>>
    /\ log = <<>>
    /\ sret = NotReturned

-----------------------------------------------------------------------------
(* get_jobs_by_title and get_jobs_by_location: texts are sequences of      *)
(* characters here, so that a pattern can be matched against them.         *)

\* the characters of the texts: a letter in both cases, another letter and
\* the underscore
QueryChars == {"D", "d", "a", "_"}

QueryTexts == UNION { [1..n -> QueryChars] : n \in 1..MaxText }

\* the arguments of the queries: the texts and the empty string
QueryArgs == QueryTexts \cup {<<>>}

\* SQLite's LIKE is case-insensitive for the ASCII letters: both sides are
\* folded to one case before they are compared
Fold(c) ==
    CASE c = "D" -> "d"
      [] c = "A" -> "a"
      [] OTHER -> c

\* X LIKE Y: % in the pattern matches any run of characters, _ matches any
\* one character, any other character matches itself in either case
RECURSIVE Like(_, _)
Like(pattern, text) ==
    IF pattern = <<>> THEN text = <<>>
    ELSE IF Head(pattern) = "%"
      THEN Like(Tail(pattern), text) \/ (text # <<>> /\ Like(pattern, Tail(text)))
      ELSE /\ text # <<>>
           /\ Head(pattern) = "_" \/ Fold(Head(pattern)) = Fold(Head(text))
           /\ Like(Tail(pattern), Tail(text))

\* params=(f'%{job_title}%',)
Infix(arg) == <<"%">> \o arg \o <<"%">>

\* a NULL cell among cells that are sequences of characters
NoText == <<Missing>>

\* SELECT * FROM job_postings WHERE col LIKE ?: a NULL cell matches nothing
SelectLike(tbl, col, arg) ==
    SelectSeq(tbl, LAMBDA r : r[col] # NoText /\ Like(Infix(arg), r[col]))

\* the stores the queries are run on: a row with any title and a location
\* or none, and a row with a title and a location in lower case
QueryTables ==
    { << Row(1, Posting(t, "X", l, "d1", "Indeed", "2024-01-10")),
         Row(2, Posting(<<"d">>, "X", <<"a">>, "d2", "Bayt", "2024-02-20")) >> :
        t \in QueryTexts, l \in {<<"D", "a">>, NoText} }

-----------------------------------------------------------------------------
(* _parse_job_card and clean_text on the text of the elements of a         *)
(* fragment: a text is a sequence of characters (a date, a time or a       *)
(* source name counts as one), '' is the empty sequence.                   *)

\* the characters of the element texts: a blank, a line break and a letter
RawChars == {" ", "\n", "a"}

\* what \s matches
Whitespace == {" ", "\n"}

RawTexts == UNION { [1..n -> RawChars] : n \in 0..MaxText }

\* text without its leading white space
RECURSIVE SkipSpace(_)
SkipSpace(text) ==
    IF text = <<>> \/ Head(text) \notin Whitespace THEN text
    ELSE SkipSpace(Tail(text))

\* re.sub(r'\s+', ' ', text): every run of white space becomes one blank
RECURSIVE Collapse(_)
Collapse(text) ==
    IF text = <<>> THEN <<>>
    ELSE IF Head(text) \in Whitespace
      THEN <<" ">> \o Collapse(SkipSpace(text))
      ELSE <<Head(text)>> \o Collapse(Tail(text))

\* text.strip()
RECURSIVE StripEnd(_)
StripEnd(text) ==
    IF text = <<>> \/ text[Len(text)] \notin Whitespace THEN text
    ELSE StripEnd(SubSeq(text, 1, Len(text) - 1))

Strip(text) == StripEnd(SkipSpace(text))

\* clean_text(text): '' for no text (None or ''), else the text with its
\* runs of white space collapsed and its ends stripped
CleanText(text) ==
    IF text = NoText \/ text = <<>> THEN <<>>
    ELSE Strip(Collapse(text))

\* a field set to None when its element is not found
ElementText_None(elem) == IF elem = NoText THEN NoText ELSE CleanText(elem)

\* self.clean_text(elem.text) if elem else '' (a Tag is truthy whatever its
\* content; card.find gives None, here NoText, when nothing matches)
ElementText(elem) == IF elem = NoText THEN <<>> ELSE CleanText(elem)

\* The fragments: a title element with any text or none, the other elements
\* with one text or not found, and whether the extraction raises.
OtherElements == {NoText, <<"a", " ">>}

Fragments ==
    { [job_title |-> t, company |-> c, location |-> l, description |-> d,
       malformed |-> b] :
        t \in RawTexts \cup {NoText}, c \in OtherElements, l \in OtherElements,
        d \in OtherElements, b \in BOOLEAN }

\* the job_data of _parse_job_card: IndeedScraper reads four elements,
\* BaytScraper three (its description stays '')
ParseJobCard(a, card) ==
    [job_title |-> ElementText(card.job_title),
     company |-> ElementText(card.company),
     location |-> ElementText(card.location),
     description |-> IF a = "Indeed" THEN ElementText(card.description) ELSE <<>>,
     salary |-> <<>>,
     experience_level |-> <<>>,
     posted_date |-> <<Today>>,
     source |-> <<a>>,
     scraped_at |-> <<Now>>]

-----------------------------------------------------------------------------
(* Several connections to one store file: every JobDatabase method opens   *)
(* its own connection with sqlite3.connect, so calls of separate processes *)
(* meet in SQLite's transactions and file locks.                           *)

\* the records of the concurrent batches: one the store accepts (twice in
\* a batch, two rows with one identity key) and one it rejects
ConcPostings ==
    { Posting("Data Scientist", "X", "Riyadh", "d1", "Indeed", "2024-01-10"),
      Posting(Missing, "X", "Riyadh", "d1", "Indeed", "2024-01-10") }

ConcBatches == UNION { [1..n -> ConcPostings] : n \in 1..MaxBatch }

\* a writer that takes the write lock whoever holds it
CanWrite_NoLock(l) == TRUE

\* the first INSERT or DELETE of a transaction takes the RESERVED lock of the
\* file, which one connection holds at a time, until commit or rollback
CanWrite(l) == l = "none"

\* the rows an open to_sql transaction has inserted and not committed
Uncommitted(t) ==
    IF t.state = "open"
      THEN [k \in 1..t.n |-> Row(t.base + k, t.batch[k])]
      ELSE <<>>

\* a SELECT that reads the uncommitted rows of another connection
Visible_Dirty(tbl, t) == tbl \o Uncommitted(t)

\* what a SELECT of another connection reads: the committed rows
Visible(tbl, t) == tbl

Ids(tbl) == { r.id : r \in Range(tbl) }

\* the ids the rows of the batch of a transaction get
BatchIds(t) == (t.base + 1)..(t.base + Len(t.batch))

NoInsert == [state |-> "idle", batch |-> <<>>, n |-> 0, base |-> 0, intact |-> TRUE]
NoDelete == [state |-> "idle", keep |-> {}, pre |-> <<>>, post |-> <<>>, ret |-> 0]
NoRead == [op |-> "none", ids |-> {}, batch |-> {}, pending |-> 0, intact |-> TRUE]
NoStatistics == [n |-> 0, stats |-> Statistics(<<>>)]

\* a SELECT as the reader remembers it: the rows it read, and the batch of
\* the latest to_sql transaction with the number of its rows not committed
Read(op, rows, t) ==
    [op |-> op, ids |-> Ids(rows), batch |-> BatchIds(t),
     pending |-> Len(Uncommitted(t)), intact |-> t.intact]

\* the four queries of get_statistics, in the order they are run
StatisticsQueries == <<"total_jobs", "jobs_by_source", "top_locations", "date_range">>

\* the result of the k-th query on the rows it reads, put into stats
AfterQuery(stats, k, rows) ==
    [stats EXCEPT ![StatisticsQueries[k]] = Statistics(rows)[StatisticsQueries[k]]]

\* no other connection is open
ConcIdle ==
    /\ lock = "none"
    /\ ins = NoInsert
    /\ dd = NoDelete
    /\ rd = NoRead
    /\ st = NoStatistics

-----------------------------------------------------------------------------
(* JobDatabase calls                                                       *)

Call(op, raised, arg, ret) == [op |-> op, raised |-> raised, arg |-> arg, ret |-> ret]

\* what the next call remembers of this one
Summary(c) ==
    [op |-> c.op, raised |-> c.raised,
     n |-> IF c.op = "remove_duplicates" THEN c.ret
           ELSE IF c.op = "get_all_jobs" THEN Len(c.ret)
           ELSE IF c.op = "get_statistics" THEN c.ret.total_jobs
           ELSE 0]

StoreInit ==
    /\ schema = ByJobDatabase
    /\ out = NoFiles
    /\ ingested = <<>>
    /\ issued = {}
    /\ table = <<>>
    /\ seq = 0
    /\ before = <<>>
    /\ last = Call("__init__", FALSE, <<>>, 0)
    /\ prev = [op |-> "none", raised |-> FALSE, n |-> 0]

Init ==
    /\ StoreInit
    /\ MergeIdle
    /\ ScrapeIdle
    /\ ConcIdle

insert_jobs ==
    \E batch \in Batches :
        /\ schema.indexes
        /\ Taken(schema, table, seq) + Len(batch) <= MaxId
        /\ UNCHANGED <<mergeVars, scrapeVars, concVars, out, ingested>>
        /\ before' = table
        /\ issued' = issued \cup IdsOf(schema, table)
        /\ prev' = Summary(last)
        /\ IF ~Rejected(schema, batch)
             THEN /\ table' = ToSql(schema, table, seq, batch).table
                  /\ seq' = ToSql(schema, table, seq, batch).seq
                  /\ schema' = ToSql(schema, table, seq, batch).schema
                  /\ last' = Call("insert_jobs", FALSE, batch, 0)
             ELSE \* sqlite3.IntegrityError: the transaction is rolled back
                  /\ table' = AfterFailedInsert(table, seq, batch).table
                  /\ seq' = AfterFailedInsert(table, seq, batch).seq
                  /\ schema' = schema
                  /\ last' = Call("insert_jobs", TRUE, batch, 0)

get_all_jobs ==
    /\ schema.indexes
    /\ last' = Call("get_all_jobs", FALSE, last.arg, SelectAll(table))
    /\ prev' = Summary(last)
    /\ UNCHANGED <<table, seq, before, issued>>
    /\ UNCHANGED <<mergeVars, scrapeVars, concVars, fileVars>>

get_statistics ==
    /\ last' = Call("get_statistics", FALSE, last.arg, Statistics(table))
    /\ prev' = Summary(last)
    /\ UNCHANGED <<table, seq, before, issued>>
    /\ UNCHANGED <<mergeVars, scrapeVars, concVars, fileVars>>

remove_duplicates ==
    /\ schema.indexes
    /\ before' = table
    /\ issued' = issued \cup IdsOf(schema, table)
    /\ IF HasId(schema)
         THEN /\ table' = RowsAfterDelete(table)
              /\ last' = Call("remove_duplicates", FALSE, <<>>, Len(table) - Len(table'))
         ELSE \* sqlite3.OperationalError: no such column: id
              /\ table' = table
              /\ last' = Call("remove_duplicates", TRUE, <<>>, 0)
    /\ prev' = Summary(last)
    /\ UNCHANGED seq
    /\ UNCHANGED <<mergeVars, scrapeVars, concVars, fileVars>>

clear_database ==
    /\ before' = table
    /\ issued' = issued \cup IdsOf(schema, table)
    /\ table' = <<>>
    /\ last' = Call("clear_database", FALSE, <<>>, 0)
    /\ prev' = Summary(last)
    /\ UNCHANGED seq
    /\ UNCHANGED <<mergeVars, scrapeVars, concVars, fileVars>>

Next ==
    \/ insert_jobs
    \/ get_all_jobs
    \/ get_statistics
    \/ remove_duplicates
    \/ clear_database

Spec == Init /\ [][Next]_vars

-----------------------------------------------------------------------------
(* The merge utility run on a file system of its own.                      *)

MergeInit ==
    /\ StoreInit
    /\ ScrapeIdle
    /\ ConcIdle
    /\ files \in FileSystems
    /\ m = [op |-> "none"]

\* One call in a behaviour: the function keeps nothing between calls, and
\* its inputs are all in the initial state.
merge_multiple_sources ==
    /\ m.op = "none"
    /\ \E csv_files \in PathLists :
        LET loaded == LoadAll(csv_files, files)
            all_dfs == loaded.dfs
        IN  /\ IF loaded.raised
                  THEN /\ files' = files
                       /\ m' = MergeCall(csv_files, TRUE, FALSE, <<>>, 0, 0, 0,
                                         loaded.warnings)
                  ELSE IF AnythingLoaded(all_dfs)
                  THEN LET cat == Concat(all_dfs)
                           merged_df == DropDuplicates(cat)
                       IN  /\ files' = [files EXCEPT ![OutputPath] = File(ToCsv(merged_df))]
                           /\ m' = MergeCall(csv_files, FALSE, FALSE, merged_df,
                                             Len(cat), Len(cat) - Len(merged_df),
                                             Len(all_dfs), loaded.warnings)
                  ELSE /\ files' = files
                       /\ m' = MergeCall(csv_files, FALSE, TRUE, <<>>, 0, 0, 0,
                                         loaded.warnings)
            /\ UNCHANGED <<storeVars, scrapeVars, concVars, fileVars>>

MergeNext == merge_multiple_sources

MergeSpec == MergeInit /\ [][MergeNext]_vars

-----------------------------------------------------------------------------
(* One scrape_jobs call on a scraper instance, step by step.               *)

\* the instance is new (self.jobs = []) or has scraped before
ScrapeInit ==
    /\ StoreInit
    /\ MergeIdle
    /\ ConcIdle
    /\ adapter \in Adapters
    /\ jobs \in {<<>>, <<EarlierRecord(adapter)>>}
    /\ pc = "idle"
    /\ max_pages = 0
    /\ page = 0
    /\ job_cards = <<>>
    /\ entry = <<>>
    /\ log = <<>>
    /\ sret = NotReturned

\* scrape_jobs(query, location, max_pages): the call enters the loop
scrape_jobs ==
    /\ pc = "idle"
    /\ \E n \in 0..MaxPages : max_pages' = n
    /\ page' = FirstPage(adapter)
    /\ pc' = "loop"
    /\ entry' = jobs
    /\ UNCHANGED <<adapter, jobs, job_cards, log, sret>>
    /\ UNCHANGED <<storeVars, mergeVars, concVars, fileVars>>

\* the range is exhausted
loop_exit ==
    /\ pc = "loop"
    /\ page > LastPage(adapter, max_pages)
    /\ pc' = "return"
    /\ UNCHANGED <<adapter, jobs, max_pages, page, job_cards, entry, log, sret>>
    /\ UNCHANGED <<storeVars, mergeVars, concVars, fileVars>>

\* requests.get raises (timeout, connection error)
get_raises ==
    /\ pc = "loop"
    /\ page <= LastPage(adapter, max_pages)
    /\ log' = Append(log, Get(page, "error", <<>>))
    /\ pc' = AfterFailure(page).pc
    /\ page' = AfterFailure(page).page
    /\ UNCHANGED <<adapter, jobs, max_pages, job_cards, entry, sret>>
    /\ UNCHANGED <<storeVars, mergeVars, concVars, fileVars>>

\* response.status_code is not 200
get_bad_status ==
    /\ pc = "loop"
    /\ page <= LastPage(adapter, max_pages)
    /\ log' = Append(log, Get(page, "status", <<>>))
    /\ pc' = AfterFailure(page).pc
    /\ page' = AfterFailure(page).page
    /\ UNCHANGED <<adapter, jobs, max_pages, job_cards, entry, sret>>
    /\ UNCHANGED <<storeVars, mergeVars, concVars, fileVars>>

\* status 200: the page is searched for its listing fragments
get_ok ==
    /\ pc = "loop"
    /\ page <= LastPage(adapter, max_pages)
    /\ \E cs \in CardLists(page) :
          /\ log' = Append(log, Get(page, "ok", cs))
          /\ job_cards' = cs
          /\ pc' = AfterPage(cs)
    /\ UNCHANGED <<adapter, jobs, max_pages, page, entry, sret>>
    /\ UNCHANGED <<storeVars, mergeVars, concVars, fileVars>>

\* for card in job_cards: ... self.jobs.append(job_data)
parse_cards ==
    /\ pc = "parse"
    /\ jobs' = Accumulated(jobs, ParsedCards(adapter, job_cards))
    /\ job_cards' = <<>>
    /\ pc' = AfterParse(page).pc
    /\ page' = AfterParse(page).page
    /\ UNCHANGED <<adapter, max_pages, entry, log, sret>>
    /\ UNCHANGED <<storeVars, mergeVars, concVars, fileVars>>

\* self.add_delay(), then the next turn of the loop
add_delay ==
    /\ pc = "delay"
    /\ log' = Append(log, Sleep(page))
    /\ page' = page + 1
    /\ pc' = "loop"
    /\ UNCHANGED <<adapter, jobs, max_pages, job_cards, entry, sret>>
    /\ UNCHANGED <<storeVars, mergeVars, concVars, fileVars>>

\* return self.jobs
return_jobs ==
    /\ pc = "return"
    /\ sret' = [returned |-> TRUE, raised |-> FALSE, jobs |-> jobs]
    /\ pc' = "done"
    /\ UNCHANGED <<adapter, jobs, max_pages, page, job_cards, entry, log>>
    /\ UNCHANGED <<storeVars, mergeVars, concVars, fileVars>>

\* the steps of a call under way
ScrapeStep ==
    \/ loop_exit
    \/ get_raises
    \/ get_bad_status
    \/ get_ok
    \/ parse_cards
    \/ add_delay
    \/ return_jobs

ScrapeNext ==
    \/ scrape_jobs
    \/ loop_exit
    \/ get_raises
    \/ get_bad_status
    \/ get_ok
    \/ parse_cards
    \/ add_delay
    \/ return_jobs

ScrapeSpec == ScrapeInit /\ [][ScrapeNext]_vars

\* A call under way takes its next step: the code is sequential, a request
\* ends within its timeout of 10 seconds and a delay within 5.
ScrapeFairSpec == ScrapeSpec /\ WF_vars(ScrapeStep)

-----------------------------------------------------------------------------
(* insert_jobs, remove_duplicates, clear_database, get_all_jobs and        *)
(* get_statistics called from separate processes on one store file, one    *)
(* step per SQL statement and per commit.                                  *)

ConcInit ==
    /\ StoreInit
    /\ MergeIdle
    /\ ScrapeIdle
    /\ ConcIdle

\* insert_jobs: to_sql opens its transaction
begin_insert ==
    /\ ins.state # "open"
    /\ CanWrite(lock)
    /\ \E batch \in ConcBatches :
          /\ seq + Len(batch) <= MaxConcId
          /\ ins' = [state |-> "open", batch |-> batch, n |-> 0, base |-> seq,
                     intact |-> TRUE]
    /\ lock' = "insert"
    /\ UNCHANGED <<dd, rd, st>>
    /\ UNCHANGED <<storeVars, mergeVars, scrapeVars, fileVars>>

\* the store is locked by another writer past the timeout of the connection:
\* sqlite3.OperationalError, nothing inserted
insert_locked ==
    /\ ins.state # "open"
    /\ ~CanWrite(lock)
    /\ \E batch \in ConcBatches :
          ins' = [state |-> "locked", batch |-> batch, n |-> 0, base |-> seq,
                  intact |-> ins.intact]
    /\ UNCHANGED <<lock, dd, rd, st>>
    /\ UNCHANGED <<storeVars, mergeVars, scrapeVars, fileVars>>

\* the next INSERT of the batch
insert_row ==
    /\ ins.state = "open"
    /\ ins.n < Len(ins.batch)
    /\ ins.batch[ins.n + 1].job_title # Missing
    /\ ins' = [ins EXCEPT !.n = ins.n + 1]
    /\ UNCHANGED <<lock, dd, rd, st>>
    /\ UNCHANGED <<storeVars, mergeVars, scrapeVars, fileVars>>

\* the next record is rejected: rollback, and insert_jobs raises
insert_rejected ==
    /\ ins.state = "open"
    /\ ins.n < Len(ins.batch)
    /\ ins.batch[ins.n + 1].job_title = Missing
    /\ table' = AfterFailedInsert(table, seq, ins.batch).table
    /\ seq' = AfterFailedInsert(table, seq, ins.batch).seq
    /\ ins' = [ins EXCEPT !.state = "raised"]
    /\ lock' = "none"
    /\ UNCHANGED <<before, last, prev, issued, dd, rd, st>>
    /\ UNCHANGED <<mergeVars, scrapeVars, fileVars>>

\* the commit of to_sql
commit_insert ==
    /\ ins.state = "open"
    /\ ins.n = Len(ins.batch)
    /\ table' = Appended(table, seq, ins.batch)
    /\ seq' = seq + Len(ins.batch)
    /\ ins' = [ins EXCEPT !.state = "committed"]
    /\ lock' = "none"
    /\ UNCHANGED <<before, last, prev, issued, dd, rd, st>>
    /\ UNCHANGED <<mergeVars, scrapeVars, fileVars>>

\* remove_duplicates: cursor.execute of the DELETE, which keeps the ids its
\* subquery selects
execute_delete ==
    /\ dd.state # "open"
    /\ CanWrite(lock)
    /\ dd' = [state |-> "open", keep |-> MinIds(Visible(table, ins)),
              pre |-> <<>>, post |-> <<>>, ret |-> 0]
    /\ lock' = "dedup"
    /\ UNCHANGED <<ins, rd, st>>
    /\ UNCHANGED <<storeVars, mergeVars, scrapeVars, fileVars>>

\* the store is locked by another writer: sqlite3.OperationalError
delete_locked ==
    /\ dd.state # "open"
    /\ ~CanWrite(lock)
    /\ dd' = [state |-> "locked", keep |-> {}, pre |-> <<>>, post |-> <<>>,
              ret |-> 0]
    /\ UNCHANGED <<lock, ins, rd, st>>
    /\ UNCHANGED <<storeVars, mergeVars, scrapeVars, fileVars>>

\* conn.commit() of remove_duplicates, and its return
commit_delete ==
    /\ dd.state = "open"
    /\ table' = SelectSeq(table, LAMBDA r : r.id \in dd.keep)
    /\ dd' = [dd EXCEPT !.state = "committed", !.pre = table, !.post = table',
                        !.ret = Len(table) - Len(table')]
    /\ ins' = [ins EXCEPT !.intact = ins.intact /\ table' = table]
    /\ lock' = "none"
    /\ UNCHANGED <<seq, before, last, prev, issued, rd, st>>
    /\ UNCHANGED <<mergeVars, scrapeVars, fileVars>>

\* clear_database: DELETE FROM job_postings and its commit
clear_store ==
    /\ CanWrite(lock)
    /\ table # <<>>
    /\ table' = <<>>
    /\ ins' = [ins EXCEPT !.intact = FALSE]
    /\ UNCHANGED <<seq, before, last, prev, issued, lock, dd, rd, st>>
    /\ UNCHANGED <<mergeVars, scrapeVars, fileVars>>

\* get_all_jobs of another process: SELECT * FROM job_postings
select_all ==
    /\ rd' = Read("get_all_jobs", SelectAll(Visible(table, ins)), ins)
    /\ UNCHANGED <<lock, ins, dd, st>>
    /\ UNCHANGED <<storeVars, mergeVars, scrapeVars, fileVars>>

\* get_statistics of another process: its next query, each SELECT read by
\* itself (the connection opens no transaction for a SELECT); a call that
\* has run its four queries has returned, and the next query starts a call
statistics_query ==
    LET k == (st.n % Len(StatisticsQueries)) + 1
        rows == Visible(table, ins)
    IN  /\ st' = [n |-> k,
                  stats |-> AfterQuery(IF k = 1 THEN Statistics(<<>>) ELSE st.stats,
                                       k, rows)]
        /\ rd' = Read(StatisticsQueries[k], rows, ins)
        /\ UNCHANGED <<lock, ins, dd>>
        /\ UNCHANGED <<storeVars, mergeVars, scrapeVars, fileVars>>

ConcNext ==
    \/ begin_insert
    \/ insert_locked
    \/ insert_row
    \/ insert_rejected
    \/ commit_insert
    \/ execute_delete
    \/ delete_locked
    \/ commit_delete
    \/ clear_store
    \/ select_all
    \/ statistics_query

ConcSpec == ConcInit /\ [][ConcNext]_vars

-----------------------------------------------------------------------------
(* A collector session and JobDatabase on a store file that does not exist *)
(* at first: the session saves its accumulator, JobDatabase objects are    *)
(* constructed on the file, batches are inserted and duplicates removed.   *)

FileInit ==
    /\ schema = NoTable
    /\ issued = {}
    /\ out = NoFiles
    /\ ingested = <<>>
    /\ table = <<>>
    /\ seq = 0
    /\ before = <<>>
    /\ last = Call("none", FALSE, <<>>, None)
    /\ prev = [op |-> "none", raised |-> FALSE, n |-> 0]
    /\ MergeIdle
    /\ ConcIdle
    /\ adapter = "Indeed"
    /\ jobs \in SessionJobs
    /\ pc = "idle"
    /\ max_pages = 0
    /\ page = 0
    /\ job_cards = <<>>
    /\ entry = <<>>
    /\ log = <<>>
    /\ sret = NotReturned

\* save_to_csv(filename): pd.DataFrame(self.jobs).to_csv(filepath, index=False)
save_to_csv ==
    /\ pc \in {"idle", "done"}
    /\ IF NothingToSave(jobs)
         THEN /\ out' = out
              /\ last' = Call("save_to_csv", FALSE, jobs, None)
         ELSE /\ out' = [out EXCEPT !["csv"] = File(ToCsv(jobs))]
              /\ last' = Call("save_to_csv", FALSE, jobs, "filepath")
    /\ prev' = Summary(last)
    /\ UNCHANGED <<table, seq, before, issued, schema, ingested>>
    /\ UNCHANGED <<mergeVars, scrapeVars, concVars>>

\* save_to_json(filename): json.dump(self.jobs, f)
save_to_json ==
    /\ pc \in {"idle", "done"}
    /\ IF NothingToSave(jobs)
         THEN /\ out' = out
              /\ last' = Call("save_to_json", FALSE, jobs, None)
         ELSE /\ out' = [out EXCEPT !["json"] = File(jobs)]
              /\ last' = Call("save_to_json", FALSE, jobs, "filepath")
    /\ prev' = Summary(last)
    /\ UNCHANGED <<table, seq, before, issued, schema, ingested>>
    /\ UNCHANGED <<mergeVars, scrapeVars, concVars>>

\* save_to_database(db_path): to_sql of the accumulator on a connection of
\* its own, whatever made the table, and making it when there is none
save_to_database ==
    /\ pc \in {"idle", "done"}
    /\ NothingToSave(jobs) \/ Taken(schema, table, seq) + Len(jobs) <= MaxId
    /\ before' = table
    /\ issued' = issued \cup IdsOf(schema, table)
    /\ prev' = Summary(last)
    /\ IF NothingToSave(jobs)
         THEN /\ UNCHANGED <<table, seq, schema>>
              /\ last' = Call("save_to_database", FALSE, jobs, None)
         ELSE IF ~Rejected(schema, jobs)
         THEN /\ table' = ToSql(schema, table, seq, jobs).table
              /\ seq' = ToSql(schema, table, seq, jobs).seq
              /\ schema' = ToSql(schema, table, seq, jobs).schema
              /\ last' = Call("save_to_database", FALSE, jobs, "db_path")
         ELSE /\ table' = AfterFailedInsert(table, seq, jobs).table
              /\ seq' = AfterFailedInsert(table, seq, jobs).seq
              /\ schema' = schema
              /\ last' = Call("save_to_database", TRUE, jobs, None)
    /\ UNCHANGED <<out, ingested>>
    /\ UNCHANGED <<mergeVars, scrapeVars, concVars>>

\* JobDatabase(db_path): __init__ runs ensure_database_exists
ensure_database_exists ==
    /\ table' = EnsureSchema(schema, table).table
    /\ schema' = EnsureSchema(schema, table).schema
    /\ last' = Call("__init__", FALSE, <<>>, None)
    /\ prev' = Summary(last)
    /\ UNCHANGED <<seq, before, issued, out, ingested>>
    /\ UNCHANGED <<mergeVars, scrapeVars, concVars>>

\* load_csv_to_database(csv_path, db_path) of the file save_to_csv wrote:
\* pd.read_csv, JobDatabase(db_path), db.insert_jobs(df)
load_csv_to_database ==
    /\ before' = table
    /\ issued' = issued \cup IdsOf(schema, table)
    /\ prev' = Summary(last)
    /\ IF ~out["csv"].exists
         THEN \* FileNotFoundError
              /\ UNCHANGED <<table, seq, schema>>
              /\ last' = Call("load_csv_to_database", TRUE, <<>>, None)
         ELSE LET df == ReadCsv(out["csv"].rows)
                  db == EnsureSchema(schema, table)
              IN  /\ Taken(db.schema, db.table, seq) + Len(df) <= MaxId
                  /\ IF ~Rejected(db.schema, df)
                       THEN /\ table' = ToSql(db.schema, db.table, seq, df).table
                            /\ seq' = ToSql(db.schema, db.table, seq, df).seq
                            /\ schema' = ToSql(db.schema, db.table, seq, df).schema
                            /\ last' = Call("load_csv_to_database", FALSE, df, "db")
                       ELSE /\ table' = AfterFailedInsert(db.table, seq, df).table
                            /\ seq' = AfterFailedInsert(db.table, seq, df).seq
                            /\ schema' = db.schema
                            /\ last' = Call("load_csv_to_database", TRUE, df, None)
    /\ UNCHANGED <<out, ingested>>
    /\ UNCHANGED <<mergeVars, scrapeVars, concVars>>

FileNext ==
    \/ save_to_csv
    \/ save_to_json
    \/ save_to_database
    \/ ensure_database_exists
    \/ load_csv_to_database
    \/ remove_duplicates
    \/ get_all_jobs

FileSpec == FileInit /\ [][FileNext]_vars

-----------------------------------------------------------------------------
(* A scraper instance over its life: records left by an earlier call, one  *)
(* scrape_jobs call step by step, and the saves before and after it.       *)

SessionInit ==
    /\ schema = NoTable
    /\ issued = {}
    /\ out = NoFiles
    /\ ingested = <<>>
    /\ table = <<>>
    /\ seq = 0
    /\ before = <<>>
    /\ last = Call("none", FALSE, <<>>, None)
    /\ prev = [op |-> "none", raised |-> FALSE, n |-> 0]
    /\ MergeIdle
    /\ ConcIdle
    /\ adapter \in Adapters
    /\ jobs \in {<<>>, <<EarlierRecord(adapter)>>}
    /\ pc = "idle"
    /\ max_pages = 0
    /\ page = 0
    /\ job_cards = <<>>
    /\ entry = <<>>
    /\ log = <<>>
    /\ sret = NotReturned

SessionNext ==
    \/ scrape_jobs
    \/ loop_exit
    \/ get_raises
    \/ get_bad_status
    \/ get_ok
    \/ parse_cards
    \/ add_delay
    \/ return_jobs
    \/ save_to_csv
    \/ save_to_json
    \/ save_to_database

SessionSpec == SessionInit /\ [][SessionNext]_vars

-----------------------------------------------------------------------------
(* Two batch files taken both ways: loaded one after the other into an     *)
(* empty store whose duplicates are then removed, and merged by            *)
(* merge_multiple_sources.                                                 *)

\* The records of the batch files, as the text of their cells: two records
\* with one identity key and a record of a fragment without a title
\* element, whose job_title is ''.
BatchRecords ==
    { Posting("Data Scientist", "X", "Riyadh", "d1", "Indeed", "2024-01-10"),
      Posting("Data Scientist", "X", "Riyadh", "d2", "Bayt", "2024-02-20"),
      Posting("", "X", "Riyadh", "d3", "Bayt", "2024-02-20") }

BatchContents == UNION { [1..n -> BatchRecords] : n \in 0..MaxRows }

\* the batches B1 and B2, in the order they are loaded and merged
BatchOrder == <<"indeed_jobs.csv", "bayt_jobs.csv">>

AgreeInit ==
    /\ StoreInit
    /\ ScrapeIdle
    /\ ConcIdle
    /\ files \in { fs \in [InputPaths \cup {OutputPath} ->
                              { File(c) : c \in BatchContents } \cup {Absent}] :
                      fs[NeverWritten] = Absent /\ fs[OutputPath] = Absent }
    /\ m = [op |-> "none"]

\* load_csv_to_database(csv_path, db_path) of the next batch file:
\* pd.read_csv, JobDatabase(db_path), db.insert_jobs(df)
load_batch_file ==
    /\ Len(ingested) < Len(BatchOrder)
    /\ before' = table
    /\ issued' = issued \cup IdsOf(schema, table)
    /\ prev' = Summary(last)
    /\ LET csv_path == BatchOrder[Len(ingested) + 1]
       IN  IF ~Exists(files, csv_path)
             THEN \* FileNotFoundError
                  /\ UNCHANGED <<table, seq, schema>>
                  /\ last' = Call("load_csv_to_database", TRUE, <<>>, None)
                  /\ ingested' = Append(ingested, [path |-> csv_path, raised |-> TRUE])
             ELSE LET df == ReadCsv(files[csv_path].rows)
                      db == EnsureSchema(schema, table)
                  IN  IF ~Rejected(db.schema, df)
                        THEN /\ table' = ToSql(db.schema, db.table, seq, df).table
                             /\ seq' = ToSql(db.schema, db.table, seq, df).seq
                             /\ schema' = ToSql(db.schema, db.table, seq, df).schema
                             /\ last' = Call("load_csv_to_database", FALSE, df, "db")
                             /\ ingested' = Append(ingested,
                                                   [path |-> csv_path, raised |-> FALSE])
                        ELSE \* sqlite3.IntegrityError out of insert_jobs
                             /\ table' = AfterFailedInsert(db.table, seq, df).table
                             /\ seq' = AfterFailedInsert(db.table, seq, df).seq
                             /\ schema' = db.schema
                             /\ last' = Call("load_csv_to_database", TRUE, df, None)
                             /\ ingested' = Append(ingested,
                                                   [path |-> csv_path, raised |-> TRUE])
    /\ UNCHANGED out
    /\ UNCHANGED <<mergeVars, scrapeVars, concVars>>

AgreeNext ==
    \/ load_batch_file
    \/ remove_duplicates
    \/ merge_multiple_sources

AgreeSpec == AgreeInit /\ [][AgreeNext]_vars

-----------------------------------------------------------------------------
(* The filtered queries on a store that holds rows.                        *)

QueryInit ==
    /\ schema = ByJobDatabase
    /\ issued = {}
    /\ out = NoFiles
    /\ ingested = <<>>
    /\ table \in QueryTables
    /\ seq = 2
    /\ before = <<>>
    /\ last = Call("__init__", FALSE, <<>>, <<>>)
    /\ prev = [op |-> "none", raised |-> FALSE, n |-> 0]
    /\ MergeIdle
    /\ ScrapeIdle
    /\ ConcIdle

get_jobs_by_title ==
    \E job_title \in QueryArgs :
        /\ last' = Call("get_jobs_by_title", FALSE, job_title,
                        SelectLike(table, "job_title", job_title))
        /\ prev' = Summary(last)
        /\ UNCHANGED <<table, seq, before, issued>>
        /\ UNCHANGED <<mergeVars, scrapeVars, concVars, fileVars>>

get_jobs_by_location ==
    \E location \in QueryArgs :
        /\ last' = Call("get_jobs_by_location", FALSE, location,
                        SelectLike(table, "location", location))
        /\ prev' = Summary(last)
        /\ UNCHANGED <<table, seq, before, issued>>
        /\ UNCHANGED <<mergeVars, scrapeVars, concVars, fileVars>>

QueryNext ==
    \/ get_jobs_by_title
    \/ get_jobs_by_location

QuerySpec == QueryInit /\ [][QueryNext]_vars

-----------------------------------------------------------------------------
(* A scrape_jobs call followed from its first page, fetched with status    *)
(* 200 and holding up to MaxFragments listing fragments.                   *)

ParseInit ==
    /\ StoreInit
    /\ MergeIdle
    /\ ConcIdle
    /\ adapter \in Adapters
    /\ jobs \in {<<>>, <<EarlierRecord(adapter)>>}
    /\ entry = jobs
    /\ max_pages \in 1..MaxPages
    /\ page = FirstPage(adapter)
    /\ job_cards \in FragmentLists(page)
    /\ pc = AfterPage(job_cards)
    /\ log = <<Get(page, "ok", job_cards)>>
    /\ sret = NotReturned

ParseNext ==
    \/ loop_exit
    \/ get_raises
    \/ get_bad_status
    \/ get_ok
    \/ parse_cards
    \/ add_delay
    \/ return_jobs

ParseSpec == ParseInit /\ [][ParseNext]_vars

-----------------------------------------------------------------------------
(* The parse of one listing fragment, element by element.                  *)

CardInit ==
    /\ StoreInit
    /\ MergeIdle
    /\ ConcIdle
    /\ adapter \in Adapters
    /\ jobs = <<>>
    /\ pc = "parse"
    /\ max_pages = 0
    /\ page = 0
    /\ job_cards \in { <<card>> : card \in Fragments }
    /\ entry = <<>>
    /\ log = <<>>
    /\ sret = NotReturned

\* job_data = self._parse_job_card(card); if job_data: self.jobs.append(job_data)
parse_job_card ==
    /\ job_cards # <<>>
    /\ LET card == Head(job_cards)
       IN  /\ jobs' = IF card.malformed THEN jobs
                      ELSE Append(jobs, ParseJobCard(adapter, card))
           /\ log' = Append(log, card)
    /\ job_cards' = Tail(job_cards)
    /\ UNCHANGED <<adapter, pc, max_pages, page, entry, sret>>
    /\ UNCHANGED <<storeVars, mergeVars, concVars, fileVars>>

CardNext == parse_job_card

CardSpec == CardInit /\ [][CardNext]_vars

-----------------------------------------------------------------------------
(* Claims about the Persistence Store, checked under Spec.                 *)

Keys(tbl) == { KeyOf(r) : r \in Range(tbl) }

NoSharedKey(tbl) ==
    \A i, j \in DOMAIN tbl : i # j => KeyOf(tbl[i]) # KeyOf(tbl[j])

\* C1: remove_duplicates deletes exactly the rows whose id is not the
\* smallest id of their (job_title, company, location) group and returns
\* how many it deleted; afterwards no two rows share an identity key, so n
\* rows with k distinct keys give a return of n - k and k rows left.
C1_DedupKeepsMinId ==
    (last.op = "remove_duplicates") =>
        /\ Range(table) =
             { r \in Range(before) :
                 \A y \in Range(before) : KeyOf(y) = KeyOf(r) => r.id <= y.id }
        /\ last.ret = Cardinality(Range(before) \ Range(table))
        /\ NoSharedKey(table)
        /\ last.ret = Len(before) - Cardinality(Keys(before))
        /\ Len(table) = Cardinality(Keys(before))

\* C1 witness: three rows, two of them sharing a key: 1 deleted, 2 left,
\* and the row deleted is not the first one of its group.
C1_Witness ==
    /\ last.op = "remove_duplicates"
    /\ Len(before) = 3
    /\ last.ret = 1
    /\ Len(table) = 2
    /\ before[1] \in Range(table)
    /\ KeyOf(before[1]) \in { KeyOf(before[2]), KeyOf(before[3]) }

\* C2: a remove_duplicates called directly after a remove_duplicates
\* returns 0 and leaves the rows as they were.
C2_DedupIdempotent ==
    (last.op = "remove_duplicates" /\ prev.op = "remove_duplicates") =>
        /\ last.ret = 0
        /\ table = before

\* C2 witness: the first of the two calls deleted rows, the second ran on
\* what it left.
C2_Witness ==
    /\ last.op = "remove_duplicates"
    /\ prev.op = "remove_duplicates"
    /\ prev.n >= 1
    /\ Len(table) >= 1

\* C3: get_all_jobs called directly after an insert_jobs that did not raise
\* returns the rows stored before the insert followed by one row per record
\* of the batch, in batch order, each with the nine field values of its
\* record.
C3_InsertThenQueryAll ==
    (last.op = "get_all_jobs" /\ prev.op = "insert_jobs" /\ ~prev.raised) =>
        LET res == last.ret
            batch == last.arg
        IN  /\ Len(res) = Len(before) + Len(batch)
            /\ \A i \in DOMAIN before : res[i] = before[i]
            /\ \A k \in DOMAIN batch : Fields(res[Len(before) + k]) = batch[k]

\* C3 witness: a batch of two records, one with a key the store already
\* holds and one with a missing cell, read back after the insert.
C3_Witness ==
    /\ last.op = "get_all_jobs"
    /\ prev.op = "insert_jobs"
    /\ ~prev.raised
    /\ Len(last.arg) = 2
    /\ Len(before) >= 1
    /\ KeyOf(last.arg[1]) \in Keys(before)
    /\ last.arg[2].company = Missing
    /\ Len(last.ret) = Len(before) + 2

\* C4: get_statistics and get_all_jobs called one directly after the other
\* (no write in between) agree: total_jobs is the number of rows returned.
C4_TotalJobsIsRowCount ==
    /\ (last.op = "get_statistics" /\ prev.op = "get_all_jobs") =>
            last.ret.total_jobs = prev.n
    /\ (last.op = "get_all_jobs" /\ prev.op = "get_statistics") =>
            Len(last.ret) = prev.n

\* C4 witness: statistics taken after inserts and a delete, with a row
\* whose company is NULL among those counted.
C4_Witness ==
    /\ last.op = "get_statistics"
    /\ prev.op = "get_all_jobs"
    /\ prev.n >= 2
    /\ seq > Len(table)
    /\ \E r \in Range(table) : r.company = Missing

\* C18: the rows of the store have pairwise distinct ids, and the rows an
\* insert_jobs adds get ids greater than every id assigned before the call,
\* whether the rows that had them are still stored or were deleted by
\* remove_duplicates or clear_database.
C18_IdsUniqueAndFresh ==
    /\ \A i, j \in DOMAIN table : i # j => table[i].id # table[j].id
    /\ (last.op = "insert_jobs" /\ ~last.raised) =>
          /\ IdsOf(schema, before) \subseteq issued
          /\ \A k \in (Len(before) + 1)..Len(table) :
                 \A old \in issued : table[k].id > old

\* C18 witness: rows were stored, all of them deleted by clear_database or
\* the later ones by remove_duplicates, and a batch inserted after that: its
\* first row has an id above the deleted ones.
C18_Witness ==
    /\ last.op = "insert_jobs"
    /\ ~last.raised
    /\ prev.op \in {"clear_database", "remove_duplicates"}
    /\ Len(table) = Len(before) + 1
    /\ issued \ IdsOf(schema, before) # {}
    /\ table[Len(table)].id = Cardinality(issued) + 1

\* C11: an insert_jobs that raises (a record of the batch is rejected by the
\* store, whatever was inserted before it) leaves the store as it was: the
\* rows are those stored before the call, with their ids and field values,
\* and no row carries an id handed out during the call.
C11_FailedInsertLeavesStore ==
    (last.op = "insert_jobs" /\ last.raised) =>
        /\ table = before
        /\ \A r \in Range(table) : r.id <= seq
        /\ Len(table) <= seq

\* C11 witness: a batch whose first record the store accepts and whose
\* second it rejects, sent to a store that holds rows; the call raised.
C11_Witness ==
    /\ last.op = "insert_jobs"
    /\ last.raised
    /\ Len(last.arg) = 2
    /\ last.arg[1].job_title # Missing
    /\ last.arg[2].job_title = Missing
    /\ Len(table) >= 1

-----------------------------------------------------------------------------
(* Claims about concurrent use of the store, checked under ConcSpec.       *)

RECURSIVE SumCounts(_)
SumCounts(groups) ==
    IF groups = {} THEN 0
    ELSE LET g == CHOOSE x \in groups : TRUE
         IN  g.count + SumCounts(groups \ {g})

\* C12: a SELECT of a reader (get_all_jobs, or one of the queries of
\* get_statistics) run while an insert_jobs of another connection is under
\* way, or after it, reads none or all of the rows of its batch, as long as
\* no delete has removed rows since.
C12_ReaderSeesWholeBatches ==
    (rd.op # "none" /\ rd.intact) =>
        \/ rd.ids \cap rd.batch = {}
        \/ rd.batch \subseteq rd.ids

\* C12 witness: get_all_jobs read the store when one of the two rows of a
\* batch was inserted and not committed, and saw neither.
C12_Witness ==
    /\ rd.op = "get_all_jobs"
    /\ rd.pending = 1
    /\ Cardinality(rd.batch) = 2
    /\ rd.ids \cap rd.batch = {}
    /\ ins.state = "open"

\* C13: remove_duplicates and insert_jobs do not overlap: while the DELETE
\* is open no to_sql transaction is, the ids it keeps are the smallest ids
\* of the groups of the committed rows, and what it commits is the delete of
\* exactly the other rows of those rows, so every identity key keeps a row.
C13_DedupSerialized ==
    /\ (dd.state = "open") =>
          /\ ins.state # "open"
          /\ dd.keep = MinIds(table)
    /\ (dd.state = "committed") =>
          /\ dd.post = RowsAfterDelete(dd.pre)
          /\ Keys(dd.post) = Keys(dd.pre)
          /\ dd.ret = Len(dd.pre) - Len(dd.post)

\* C13 witness: a remove_duplicates that deleted a row and committed, with
\* an insert_jobs that met the locked store while the DELETE was open.
C13_Witness ==
    /\ dd.state = "committed"
    /\ dd.ret = 1
    /\ ins.state = "locked"
    /\ Len(table) = 1

\* C14 (the claim as stated): when get_statistics has run its four queries,
\* the per-source counts sum to total_jobs, and a date range is reported
\* exactly when rows were counted.
C14_StatisticsOneSnapshot ==
    (st.n = Len(StatisticsQueries)) =>
        /\ SumCounts(st.stats.jobs_by_source) = st.stats.total_jobs
        /\ (st.stats.total_jobs = 0) <=> (st.stats.date_range.earliest = Missing)

-----------------------------------------------------------------------------
(* Claims about the session's sinks and the store file, checked under      *)
(* FileSpec.                                                               *)

SaveOps == {"save_to_csv", "save_to_json", "save_to_database"}

\* C15: a save_to_csv, save_to_json or save_to_database of a session whose
\* accumulator is empty writes no file, adds no table and no row to the
\* store, raises nothing, returns no path and leaves the accumulator empty.
C15_EmptySaveIsNoOp ==
    [][ (jobs = <<>> /\ last'.op \in SaveOps) =>
            /\ out' = out
            /\ schema' = schema
            /\ table' = table
            /\ seq' = seq
            /\ jobs' = <<>>
            /\ ~last'.raised
            /\ last'.ret = None ]_vars

\* C15 witness: an empty session saved to JSON and then to a store file
\* that does not exist: there is still no file and no table.
C15_Witness ==
    /\ last.op = "save_to_database"
    /\ prev.op = "save_to_json"
    /\ jobs = <<>>
    /\ out = NoFiles
    /\ schema = NoTable

\* C16: constructing a JobDatabase (ensure_database_exists) changes no row,
\* id or sqlite_sequence; on a file that has the table it keeps the table
\* it finds; and running it again on its result changes nothing.
C16_EnsureSchemaIdempotent ==
    [][ (last'.op = "__init__") =>
            /\ table' = table
            /\ seq' = seq
            /\ (schema.made # "none") => (schema'.made = schema.made)
            /\ schema'.made # "none" /\ schema'.indexes
            /\ EnsureSchema(schema', table') = [schema |-> schema', table |-> table'] ]_vars

\* C16 witness: a second JobDatabase constructed on a store whose table the
\* first one made and which holds rows with ids.
C16_Witness ==
    /\ last.op = "__init__"
    /\ prev.op = "__init__"
    /\ HasId(schema)
    /\ Len(table) >= 2
    /\ \A i \in DOMAIN table : table[i].id = i

\* C19 (the claim as stated): after any sequence of save_to_database,
\* JobDatabase construction, load_csv_to_database (construction and
\* insert_jobs) and remove_duplicates on a store
\* file that did not exist, every row has an id and remove_duplicates does
\* not raise.
C19_SavedRowsHaveIds ==
    /\ \A i \in DOMAIN table : "id" \in DOMAIN table[i]
    /\ (last.op = "remove_duplicates") => ~last.raised

-----------------------------------------------------------------------------
(* Claims about the filtered queries, checked under QuerySpec.             *)

\* s occurs in text as it is written: same characters, same case, adjacent
Contains(text, s) ==
    \E i \in 0..(Len(text) - Len(s)) : SubSeq(text, i + 1, i + Len(s)) = s

\* C17 (the claim as stated): get_jobs_by_title(s) returns exactly the rows
\* whose job_title contains s as a case-sensitive contiguous substring, and
\* get_jobs_by_location(s) those whose location does, in table order.
C17_CaseSensitiveSubstring ==
    /\ (last.op = "get_jobs_by_title") =>
          last.ret = SelectSeq(table, LAMBDA r : Contains(r.job_title, last.arg))
    /\ (last.op = "get_jobs_by_location") =>
          last.ret = SelectSeq(table, LAMBDA r :
                        r.location # NoText /\ Contains(r.location, last.arg))

-----------------------------------------------------------------------------
(* Claims about the merge utility, checked under MergeSpec.                *)

\* the index of the first record of df with the key k
FirstIndex(df, k) ==
    CHOOSE i \in DOMAIN df :
        KeyOf(df[i]) = k /\ \A j \in 1..(i - 1) : KeyOf(df[j]) # k

\* C5 (the claim as stated): merging two files B1 and B2 of at least one
\* record each yields one
\* record per distinct (job_title, company, location) of the records of B1
\* followed by those of B2, each the first record with its key, and reports
\* |B1| + |B2| - |merged| duplicates removed.
C5_OnePerDistinctKey ==
    (/\ m.op = "merge_multiple_sources"
     /\ Len(m.paths) = 2
     /\ \A i \in DOMAIN m.paths :
            Exists(files, m.paths[i]) /\ files[m.paths[i]].rows # <<>>) =>
        LET B1 == files[m.paths[1]].rows
            B2 == files[m.paths[2]].rows
            cat == B1 \o B2
        IN  /\ m.removed = Len(B1) + Len(B2) - Len(m.ret)
            /\ Len(m.ret) = Cardinality(Keys(cat))
            /\ \A k \in Keys(cat) :
                   \E i \in DOMAIN m.ret :
                       m.ret[i].description = cat[FirstIndex(cat, k)].description

\* C6: the paths of csv_files that do not exist are skipped with one warning
\* each, no error is raised, and the result is the merge of the files that
\* exist, in their order in csv_files.
C6_MissingPathsSkipped ==
    (m.op = "merge_multiple_sources") =>
        LET existing == SelectSeq(m.paths, LAMBDA p : files[p].exists)
            frames == [i \in DOMAIN existing |-> ReadCsv(files[existing[i]].rows)]
            expected == DropDuplicates(Concat(frames))
        IN  /\ ~m.raised
            /\ m.warnings = Len(m.paths) - Len(existing)
            /\ m.nfiles = Len(existing)
            /\ existing # <<>> =>
                   /\ ~m.none
                   /\ m.ret = expected
                   /\ files[OutputPath] = File(ToCsv(expected))

\* C6 witness: a missing path between two files that exist; the merge went
\* over both files and dropped a duplicate of the first in the second.
C6_Witness ==
    /\ m.op = "merge_multiple_sources"
    /\ m.paths = <<"indeed_jobs.csv", "missing.csv", "bayt_jobs.csv">>
    /\ files["indeed_jobs.csv"].exists
    /\ files["bayt_jobs.csv"].exists
    /\ m.warnings = 1
    /\ m.nfiles = 2
    /\ m.removed = 1
    /\ Len(m.ret) = 2
    /\ files[OutputPath].exists


-----------------------------------------------------------------------------
(* Claims about scrape_jobs, checked under ScrapeSpec and ScrapeFairSpec.  *)

IsGet(ev) == ev.e = "get"
IsSleep(ev) == ev.e = "sleep"
Failed(ev) == IsGet(ev) /\ ev.result \in {"status", "error"}
EmptyPage(ev) == IsGet(ev) /\ ev.result = "ok" /\ ev.cards = <<>>
Listed(ev) == IsGet(ev) /\ ev.result = "ok" /\ ev.cards # <<>>

\* the requests of the call, in the order they were issued
Requests == SelectSeq(log, IsGet)

\* one record per well-formed fragment of the pages in a piece of the log,
\* in page and fragment order
RECURSIVE RecordsOf(_)
RecordsOf(evs) ==
    IF evs = <<>> THEN <<>>
    ELSE LET good == SelectSeq(Head(evs).cards, LAMBDA c : ~c.malformed)
         IN  [i \in DOMAIN good |-> ParsedRecord(adapter, good[i])]
             \o RecordsOf(Tail(evs))

Halted == pc \in {"return", "done"}

\* C7: a page fetched with status 200 that has no listing fragment ends the
\* loop: nothing is requested after it, no delay is taken for it, the call
\* does not raise, and it returns the records accumulated before that page.
C7_EmptyPageHalts ==
    \A i \in DOMAIN log :
        EmptyPage(log[i]) =>
            /\ i = Len(log)
            /\ Halted
            /\ jobs = entry \o RecordsOf(SubSeq(log, 1, i - 1))
            /\ sret.returned => (~sret.raised /\ sret.jobs = jobs)

\* C7 witness: the second page of three has no fragment; the call returned
\* the record of the first page after two requests.
C7_Witness ==
    /\ pc = "done"
    /\ max_pages = 3
    /\ Len(Requests) = 2
    /\ Listed(log[1])
    /\ EmptyPage(log[Len(log)])
    /\ Len(sret.jobs) = Len(entry) + 1

\* C8: on an instance that starts with no records, the first page whose
\* request fails (status not 200, or an exception) is the last page
\* requested; the call does not raise and returns the records parsed from
\* the pages before it, in page order.
C8_FailedPageReturnsPartial ==
    \A i \in DOMAIN log :
        (entry = <<>> /\ Failed(log[i])) =>
            /\ i = Len(log)
            /\ Halted
            /\ jobs = RecordsOf(SubSeq(log, 1, i - 1))
            /\ sret.returned => (~sret.raised /\ sret.jobs = jobs)

\* C8 witness: max_pages = 3 and the second page answers with an error
\* status: the call returned the records of the first page only.
C8_Witness ==
    /\ pc = "done"
    /\ entry = <<>>
    /\ max_pages = 3
    /\ Len(Requests) = 2
    /\ Listed(Requests[1])
    /\ Requests[2].result = "status"
    /\ sret.returned
    /\ ~sret.raised
    /\ Len(sret.jobs) = 1

\* C9: a delay is taken after every page that was fetched and had listing
\* fragments, before the next request; a delay is only ever taken right
\* after such a page, so none follows a failed page and no two requests
\* follow each other without a delay.
C9_DelayBetweenRequests ==
    \A i \in DOMAIN log :
        /\ IsGet(log[i]) /\ i < Len(log) =>
              IsSleep(log[i + 1]) /\ log[i + 1].page = log[i].page
        /\ IsSleep(log[i]) => i > 1 /\ Listed(log[i - 1])
        /\ Listed(log[i]) /\ i = Len(log) => pc \in {"parse", "delay"}

\* C9 witness: two pages fetched, a delay after each, then a page that
\* failed and no delay after it.
C9_Witness ==
    /\ pc = "done"
    /\ Len(log) = 5
    /\ IsSleep(log[2])
    /\ IsSleep(log[4])
    /\ Failed(log[5])

\* the safety part of C10
RequestsInOrder ==
    /\ Len(Requests) <= max_pages
    /\ \A i, j \in DOMAIN Requests : i < j => Requests[i].page < Requests[j].page
    /\ \A i \in DOMAIN Requests : Failed(Requests[i]) => i = Len(Requests)

\* C10: a scrape_jobs call issues at most max_pages requests, for strictly
\* increasing page indexes (so none twice), none after a failed one, and
\* it ends.
C10_TerminatesWithinMaxPages ==
    /\ []RequestsInOrder
    /\ (pc # "idle") ~> (pc = "done")

\* C10 witness: a call that requested all of its three pages, the last of
\* which failed, and ended.
C10_Witness ==
    /\ pc = "done"
    /\ max_pages = 3
    /\ Len(Requests) = 3
    /\ Failed(Requests[3])

-----------------------------------------------------------------------------
(* Claims about the parsing of a page, checked under ParseSpec.            *)

\* the pages of the log whose fragments have been gone through
ParsedPages ==
    IF pc = "parse" THEN SubSeq(log, 1, Len(log) - 1) ELSE log

\* C20: the records in the accumulator are those it held at the call
\* followed by one record per fragment whose parse did not raise, for every
\* fetched page, in page and fragment order; and a page with fragments,
\* whether or not some or all of them failed to parse, is followed by the
\* delay and the request of the next page as long as pages are left.
C20_OnlyFailedFragmentSkipped ==
    /\ jobs = entry \o RecordsOf(ParsedPages)
    /\ \A i \in DOMAIN log :
          Listed(log[i]) =>
              /\ (i + 1 <= Len(log)) => IsSleep(log[i + 1])
              /\ (i + 2 <= Len(log)) =>
                     IsGet(log[i + 2]) /\ log[i + 2].page = log[i].page + 1
              /\ (i + 1 = Len(log) /\ Halted) =>
                     log[i].page = LastPage(adapter, max_pages)

\* C20 witness: the first page has three fragments and the parse of the
\* second raised: the first and the third gave the two records appended,
\* in that order, and the next page was requested.
C20_Witness ==
    /\ Len(log[1].cards) = 3
    /\ ~log[1].cards[1].malformed
    /\ log[1].cards[2].malformed
    /\ ~log[1].cards[3].malformed
    /\ Len(Requests) = 2
    /\ Len(jobs) >= Len(entry) + 2
    /\ jobs[Len(entry) + 1] = ParsedRecord(adapter, log[1].cards[1])
    /\ jobs[Len(entry) + 2] = ParsedRecord(adapter, log[1].cards[3])

-----------------------------------------------------------------------------
(* Claims about the records of a fragment, checked under CardSpec.         *)

\* the fields _parse_job_card reads from elements of the fragment
ElementFields(a) ==
    IF a = "Indeed" THEN {"job_title", "company", "location", "description"}
    ELSE {"job_title", "company", "location"}

\* C21: every record in the accumulator has exactly the nine JobPosting
\* fields, each with a text (never the null value); a field whose element
\* was not found in the fragment, or that the adapter does not read, is ''.
C21_NineStringFields ==
    \A i \in DOMAIN jobs :
        /\ DOMAIN jobs[i] = JobFields
        /\ \A f \in JobFields : jobs[i][f] # NoText
        /\ \A f \in ElementFields(adapter) :
               (log[i][f] = NoText) => (jobs[i][f] = <<>>)
        /\ \A f \in {"job_title", "company", "location", "description", "salary",
                     "experience_level"} \ ElementFields(adapter) :
               jobs[i][f] = <<>>

\* C21 witness: a Bayt fragment without title, company and location
\* elements gave a record whose text fields are all ''.
C21_Witness ==
    /\ adapter = "Bayt"
    /\ Len(jobs) = 1
    /\ log[1].job_title = NoText
    /\ log[1].company = NoText
    /\ log[1].location = NoText
    /\ jobs[1].job_title = <<>>
    /\ jobs[1].company = <<>>
    /\ jobs[1].description = <<>>
    /\ jobs[1].source = <<"Bayt">>

-----------------------------------------------------------------------------
(* C22 (FileSpec): save_to_database and load_csv_to_database (which calls  *)
(* insert_jobs) never deduplicate. A call that inserted its batch of n     *)
(* records left the store with exactly n rows more, also when records of   *)
(* the batch share an identity key with each other or with stored rows,    *)
(* and every row stored before the call is still there, unchanged and in   *)
(* its place.                                                              *)

\* the calls that insert a batch
InsertOps == {"save_to_database", "load_csv_to_database", "insert_jobs"}

C22_InsertNeverDeduplicates ==
    (last.op \in InsertOps /\ ~last.raised /\ last.arg # <<>>) =>
        /\ Len(table) = Len(before) + Len(last.arg)
        /\ \A i \in DOMAIN before : table[i] = before[i]
        /\ \A k \in DOMAIN last.arg :
              Fields(table[Len(before) + k]) = last.arg[k]

\* a file of one record is loaded into a store that already holds a row
\* with the record's identity key, and the store has one row more
C22_Witness ==
    /\ last.op = "load_csv_to_database"
    /\ ~last.raised
    /\ Len(last.arg) = 1
    /\ \E i \in DOMAIN before : KeyOf(before[i]) = KeyOf(last.arg[1])
    /\ Len(table) = Len(before) + 1

-----------------------------------------------------------------------------
(* C23 (Spec): remove_duplicates only removes rows. Every row of the store *)
(* after the call is a row that was there before it, with the same id and  *)
(* the same field values and in the same order; no row is new; and the     *)
(* identity keys found in the store are the same before and after.         *)

C23_DedupOnlyRemoves ==
    (last.op = "remove_duplicates" /\ ~last.raised) =>
        /\ Range(table) \subseteq Range(before)
        /\ Len(table) = Len(before) - last.ret
        /\ \A i, j \in DOMAIN table : i < j => table[i].id < table[j].id
        /\ Keys(table) = Keys(before)

\* a call that deleted a row and kept a row stored after it: the kept row
\* still has the id it was inserted with
C23_Witness ==
    /\ last.op = "remove_duplicates"
    /\ last.ret >= 1
    /\ Len(table) = 2
    /\ table[2].id = 3
    /\ Cardinality(Keys(before)) = 2

-----------------------------------------------------------------------------
(* C24 (FileSpec): a field that is the empty string is never null in the   *)
(* pipeline. The records of the session all have salary ''; after they     *)
(* were written by save_to_csv and the file was loaded with                *)
(* load_csv_to_database, get_all_jobs returns rows none of whose fields    *)
(* is missing, each with salary ''.                                        *)

C24_EmptyStringNeverNull ==
    (last.op = "get_all_jobs" /\ prev.op = "load_csv_to_database" /\ ~prev.raised) =>
        \A i \in DOMAIN last.ret :
            /\ last.ret[i].salary = ""
            /\ \A f \in JobFields : last.ret[i][f] # Missing

-----------------------------------------------------------------------------
(* C25 (SessionSpec): the accumulator of a scraper instance only grows. A  *)
(* scrape_jobs call keeps the records the instance held when it was called *)
(* and adds its own after them, and returns the whole accumulator; a save  *)
(* leaves the accumulator as it was; and two save_to_database calls in a   *)
(* row on the same accumulator leave its records in the store twice.       *)

\* s is the beginning of t
IsPrefix(s, t) == Len(s) <= Len(t) /\ SubSeq(t, 1, Len(s)) = s

C25_AccumulatorOnlyGrows ==
    /\ pc # "idle" => IsPrefix(entry, jobs)
    /\ sret.returned => (sret.jobs = jobs /\ IsPrefix(entry, sret.jobs))
    /\ last.op \in SaveOps => IsPrefix(last.arg, jobs)
    /\ (last.op \in SaveOps /\ pc = "idle") => last.arg = jobs
    /\ ( /\ last.op = "save_to_database" /\ prev.op = "save_to_database"
         /\ jobs # <<>> /\ (pc = "idle" \/ jobs = entry) ) =>
           /\ Len(table) >= 2 * Len(jobs)
           /\ [k \in 1..(2 * Len(jobs)) |->
                  Fields(table[Len(table) - 2 * Len(jobs) + k])] = jobs \o jobs

\* a call on an instance that held a record returned it followed by a new
\* one, and a save after the return left the accumulator as returned
C25_Witness ==
    /\ pc = "done"
    /\ entry # <<>>
    /\ Len(jobs) > Len(entry)
    /\ sret.jobs = jobs
    /\ last.op = "save_to_database"
    /\ last.arg = jobs
    /\ Len(table) = Len(jobs)

-----------------------------------------------------------------------------
(* C26 (MergeSpec): when none of the paths given to merge_multiple_sources *)
(* exists, the empty list included, the call returns None, writes no       *)
(* output file and raises nothing; and the output file is written exactly  *)
(* when at least one of the paths exists.                                  *)

C26_NothingToMerge ==
    (m.op = "merge_multiple_sources") =>
        LET existing == { i \in DOMAIN m.paths : files[m.paths[i]].exists }
        IN  /\ existing = {} =>
                  /\ m.none
                  /\ ~m.raised
                  /\ m.ret = <<>>
                  /\ files[OutputPath] = Absent
            /\ files[OutputPath].exists <=> existing # {}
            /\ m.none <=> existing = {}

\* a call with one path, which does not exist, on a file system that holds
\* another file: None, a warning and no output file
C26_Witness ==
    /\ m.op = "merge_multiple_sources"
    /\ m.paths = <<"missing.csv">>
    /\ files["indeed_jobs.csv"].exists
    /\ m.none
    /\ m.warnings = 1
    /\ files[OutputPath] = Absent

-----------------------------------------------------------------------------
(* C27 (AgreeSpec): file-level merge and store-level deduplication agree.  *)
(* For two batch files B1 and B2 that exist: after B1 and then B2 were     *)
(* loaded into the empty store and remove_duplicates was called, the store *)
(* holds the records that merge_multiple_sources([B1, B2]) returns: the    *)
(* same records with the same field values, in the same order.             *)

C27_MergeAndDedupAgree ==
    ( /\ m.op = "merge_multiple_sources"
      /\ m.paths = BatchOrder
      /\ \A i \in DOMAIN BatchOrder : Exists(files, BatchOrder[i])
      /\ Len(ingested) = Len(BatchOrder)
      /\ last.op = "remove_duplicates" ) =>
        [i \in DOMAIN table |-> Fields(table[i])] = m.ret

=============================================================================
